---- MODULE Spec2Model ----
(***************************************************************************)
(* A model of the H2 dialect of SQLAlchemy (sqlalchemy_h2/dialect/base.py):*)
(* the two-phase-commit hooks of H2Dialect, its identifier normalisation,  *)
(* the LIMIT/OFFSET clause of H2Compiler and the reflection methods        *)
(* get_columns, get_foreign_keys, get_indexes, get_table_names and         *)
(* get_view_names.                                                         *)
(*                                                                         *)
(* Text is modelled as a sequence of one-character strings, so that case   *)
(* folding, quoting rules and the regular expressions of the source act on *)
(* characters.  Fixed keywords of a constraint definition or of a column   *)
(* default are single elements of such a sequence (lexical tokens).        *)
(* Python's None is the distinguished sequence None.                       *)
(*                                                                         *)
(* The executor (connection.execute) is the opaque collaborator of the     *)
(* dialect: it is modelled as accepting every statement, and the rows it   *)
(* returns are inputs drawn from bounded sets.                             *)
(***************************************************************************)
EXTENDS Naturals, Sequences, FiniteSets, TLC

VARIABLES
    call,      \* the arguments of the current call and the rows the catalog returns to it
    pc,        \* where the current call stands: "start", ..., "done"
    result,    \* what the call returned (None before it has run)
    warnings,  \* the warnings issued through util.warn
    calls,     \* two-phase commit: the hooks called so far, with their arguments
    log,       \* two-phase commit: what reached the connection, in order
    marks,     \* two-phase commit: marks[i] = Len(log) after the i-th call returned
    raised     \* two-phase commit: TRUE once a hook has raised by itself

vars == <<call, pc, result, warnings, calls, log, marks, raised>>

None == << "<None>" >>

(***************************************************************************)
(* Characters and case folding (str.upper, str.lower on ASCII text).       *)
(***************************************************************************)
UpperLetters ==
    << "A", "B", "C", "D", "E", "F", "G", "H", "I", "J", "K", "L", "M",
       "N", "O", "P", "Q", "R", "S", "T", "U", "V", "W", "X", "Y", "Z" >>

LowerLetters ==
    << "a", "b", "c", "d", "e", "f", "g", "h", "i", "j", "k", "l", "m",
       "n", "o", "p", "q", "r", "s", "t", "u", "v", "w", "x", "y", "z" >>

Digits == { "0", "1", "2", "3", "4", "5", "6", "7", "8", "9" }

LowerChar(c) ==
    IF \E i \in DOMAIN UpperLetters : UpperLetters[i] = c
    THEN LowerLetters[CHOOSE i \in DOMAIN UpperLetters : UpperLetters[i] = c]
    ELSE c

UpperChar(c) ==
    IF \E i \in DOMAIN LowerLetters : LowerLetters[i] = c
    THEN UpperLetters[CHOOSE i \in DOMAIN LowerLetters : LowerLetters[i] = c]
    ELSE c

Lower(s) == [i \in DOMAIN s |-> LowerChar(s[i])]

Upper(s) == [i \in DOMAIN s |-> UpperChar(s[i])]

RECURSIVE Join(_)
Join(s) == IF s = <<>> THEN "" ELSE Head(s) \o Join(Tail(s))

\* The texts of n elements of chars.
RECURSIVE TextsOfLen(_, _)
TextsOfLen(chars, n) ==
    IF n = 0 THEN { <<>> }
    ELSE { <<c>> \o t : c \in chars, t \in TextsOfLen(chars, n - 1) }

(***************************************************************************)
(* H2IdentifierPreparer: the reserved words of the dialect, and the rule   *)
(* of the inherited IdentifierPreparer._requires_quotes that               *)
(* normalize_name and denormalize_name consult: a name requires quotes     *)
(* when its lower-case form is reserved, when it starts with a digit or    *)
(* "$", when it holds a character outside [A-Za-z0-9_$], or when it is not *)
(* all lower case.                                                         *)
(***************************************************************************)
reserved_words ==
    { "add", "after", "all", "alter", "analyze", "and", "as", "asc",
      "attach", "autoincrement", "before", "begin", "between", "by",
      "cascade", "case", "cast", "check", "collate", "column", "commit",
      "conflict", "constraint", "create", "cross", "current_date",
      "current_time", "current_timestamp", "database", "default",
      "deferrable", "deferred", "delete", "desc", "detach", "distinct",
      "drop", "each", "else", "end", "escape", "except", "exclusive",
      "exists", "explain", "false", "fail", "for", "foreign", "from",
      "full", "glob", "group", "having", "if", "ignore", "immediate", "in",
      "index", "indexed", "initially", "inner", "insert", "instead",
      "intersect", "into", "is", "isnull", "join", "key", "left", "like",
      "limit", "match", "minus", "natural", "not", "notnull", "null", "of",
      "offset", "on", "or", "order", "outer", "plan", "pragma", "primary",
      "query", "raise", "references", "reindex", "rename", "replace",
      "restrict", "right", "rollback", "row", "rownum", "select", "set",
      "sysdate", "systime", "systimestamp", "table", "temp", "temporary",
      "then", "to", "today", "transaction", "trigger", "true", "union",
      "unique", "update", "using", "vacuum", "values", "view", "virtual",
      "when", "where" }

IsLetter(c) ==
    \/ \E i \in DOMAIN UpperLetters : UpperLetters[i] = c
    \/ \E i \in DOMAIN LowerLetters : LowerLetters[i] = c

legal_characters(value) ==
    /\ value # <<>>
    /\ \A i \in DOMAIN value :
          IsLetter(value[i]) \/ value[i] \in Digits \/ value[i] \in { "_", "$" }

illegal_initial_characters == Digits \cup { "$" }

_requires_quotes(value) ==
    \/ Join(Lower(value)) \in reserved_words
    \/ value[1] \in illegal_initial_characters
    \/ ~ legal_characters(value)
    \/ Lower(value) # value

(***************************************************************************)
(* H2Dialect.normalize_name and H2Dialect.denormalize_name.                *)
(***************************************************************************)
normalize_name_lower_test(name) ==
    IF name = None THEN None
    ELSE IF Lower(name) = name /\ ~ _requires_quotes(Lower(name))
         THEN Lower(name)
         ELSE name

normalize_name(name) ==
    IF name = None THEN None
    ELSE IF Upper(name) = name /\ ~ _requires_quotes(Lower(name))
         THEN Lower(name)
         ELSE name

denormalize_name(name) ==
    IF name = None THEN None
    ELSE IF Lower(name) = name /\ ~ _requires_quotes(Lower(name))
         THEN Upper(name)
         ELSE name

(***************************************************************************)
(* The parts of the state a specification does not use stay as they are.   *)
(***************************************************************************)
NoTwophase ==
    /\ calls = <<>>
    /\ log = <<>>
    /\ marks = <<>>
    /\ raised = FALSE

NoCall ==
    /\ call = [op |-> "none"]
    /\ pc = "done"
    /\ result = None
    /\ warnings = <<>>

(***************************************************************************)
(* The two-phase-commit hooks of H2Dialect.  Each hook yields what it      *)
(* sends to the connection, in order: a statement through                  *)
(* connection.execute, or a call of do_begin, do_rollback or do_commit on  *)
(* the underlying DBAPI connection.  No hook reads what was called before, *)
(* and no hook raises by itself.                                           *)
(***************************************************************************)
Execute(text) == [op |-> "execute", text |-> text]

do_begin == [op |-> "do_begin", text |-> ""]

do_rollback == [op |-> "do_rollback", text |-> ""]

do_commit == [op |-> "do_commit", text |-> ""]

Emits(events) == [events |-> events, raises |-> FALSE]

Raises == [events |-> <<>>, raises |-> TRUE]

do_begin_twophase(xid) == Emits(<< do_begin >>)

\* A hook that checks the phase: a second prepare of the same xid raises.
do_prepare_twophase_once(xid) ==
    IF \E i \in DOMAIN calls : calls[i].op = "prepare" /\ calls[i].xid = xid
    THEN Raises
    ELSE Emits(<< Execute("PREPARE COMMIT " \o xid) >>)

do_prepare_twophase(xid) == Emits(<< Execute("PREPARE COMMIT " \o xid) >>)

\* A hook that takes the prepared branch and forgets the local rollback.
do_rollback_twophase_remote_only(xid, is_prepared, recover) ==
    IF is_prepared
    THEN Emits(<< Execute("ROLLBACK TRANSACTION " \o xid) >>)
    ELSE Emits(<< do_rollback >>)

do_rollback_twophase(xid, is_prepared, recover) ==
    IF is_prepared
    THEN Emits(<< Execute("ROLLBACK TRANSACTION " \o xid), do_rollback >>)
    ELSE Emits(<< do_rollback >>)

\* A hook that ends the prepared branch with a local commit.
do_commit_twophase_local_commit(xid, is_prepared, recover) ==
    IF is_prepared
    THEN Emits(<< Execute("COMMIT TRANSACTION " \o xid), do_commit >>)
    ELSE Emits(<< do_commit >>)

do_commit_twophase(xid, is_prepared, recover) ==
    IF is_prepared
    THEN Emits(<< Execute("COMMIT TRANSACTION " \o xid), do_rollback >>)
    ELSE Emits(<< do_commit >>)

(***************************************************************************)
(* SpecTwophase: the caller invokes the hooks in any order, with any       *)
(* arguments.                                                              *)
(***************************************************************************)
MaxCalls == 3

Xids == { "xid1", "xid2" }

InitTwophase ==
    /\ NoTwophase
    /\ NoCall

Returns(c, r) ==
    /\ Len(calls) < MaxCalls
    /\ ~ raised
    /\ calls' = Append(calls, c)
    /\ log' = log \o r.events
    /\ marks' = Append(marks, Len(log) + Len(r.events))
    /\ raised' = r.raises
    /\ UNCHANGED <<call, pc, result, warnings>>

BeginTwophase ==
    \E xid \in Xids :
        Returns([op |-> "begin", xid |-> xid], do_begin_twophase(xid))

PrepareTwophase ==
    \E xid \in Xids :
        Returns([op |-> "prepare", xid |-> xid], do_prepare_twophase(xid))

RollbackTwophase ==
    \E xid \in Xids, is_prepared \in BOOLEAN, recover \in BOOLEAN :
        Returns([op |-> "rollback", xid |-> xid,
                 is_prepared |-> is_prepared, recover |-> recover],
                do_rollback_twophase(xid, is_prepared, recover))

CommitTwophase ==
    \E xid \in Xids, is_prepared \in BOOLEAN, recover \in BOOLEAN :
        Returns([op |-> "commit", xid |-> xid,
                 is_prepared |-> is_prepared, recover |-> recover],
                do_commit_twophase(xid, is_prepared, recover))

NextTwophase ==
    \/ BeginTwophase
    \/ PrepareTwophase
    \/ RollbackTwophase
    \/ CommitTwophase

SpecTwophase == InitTwophase /\ [][NextTwophase]_vars

\* What the i-th call sent to the connection.
Sent(i) == SubSeq(log, (IF i = 1 THEN 0 ELSE marks[i - 1]) + 1, marks[i])

\* C1: a commit with isPrepared sends exactly COMMIT TRANSACTION <xid> and then
\* a local rollback, and no local commit; a commit without isPrepared is exactly
\* one local commit, with no statement and no rollback; whatever xid and recover.
C1_Commit ==
    \A i \in DOMAIN calls :
        calls[i].op = "commit" =>
            /\ i \in DOMAIN marks
            /\ calls[i].is_prepared =>
                  /\ Len(Sent(i)) = 2
                  /\ Sent(i)[1] = [op |-> "execute",
                                   text |-> "COMMIT TRANSACTION " \o calls[i].xid]
                  /\ Sent(i)[2].op = "do_rollback"
                  /\ \A k \in DOMAIN Sent(i) : Sent(i)[k].op # "do_commit"
            /\ ~ calls[i].is_prepared =>
                  /\ Len(Sent(i)) = 1
                  /\ Sent(i)[1].op = "do_commit"

C1_Witness ==
    \E i, j \in DOMAIN calls :
        /\ calls[i].op = "commit" /\ calls[i].is_prepared /\ calls[i].recover
        /\ calls[j].op = "commit" /\ ~ calls[j].is_prepared
        /\ calls[i].xid # calls[j].xid
        /\ Len(marks) = Len(calls)

\* C2: a rollback with isPrepared sends exactly ROLLBACK TRANSACTION <xid> and
\* then a local rollback; without isPrepared it is a local rollback only, with no
\* statement carrying the xid; either way exactly one local rollback and no
\* local commit.
C2_Rollback ==
    \A i \in DOMAIN calls :
        calls[i].op = "rollback" =>
            /\ i \in DOMAIN marks
            /\ calls[i].is_prepared =>
                  Sent(i) = << [op |-> "execute",
                                text |-> "ROLLBACK TRANSACTION " \o calls[i].xid],
                               do_rollback >>
            /\ ~ calls[i].is_prepared => Sent(i) = << do_rollback >>
            /\ Cardinality({ k \in DOMAIN Sent(i) : Sent(i)[k].op = "do_rollback" }) = 1
            /\ \A k \in DOMAIN Sent(i) : Sent(i)[k].op # "do_commit"

C2_Witness ==
    \E i, j \in DOMAIN calls :
        /\ calls[i].op = "rollback" /\ calls[i].is_prepared
        /\ calls[j].op = "rollback" /\ ~ calls[j].is_prepared
        /\ Len(marks) = Len(calls)
        /\ Len(log) = 3

\* The arguments of a call that decide what it sends.
Decisive(c) ==
    IF c.op \in { "commit", "rollback" }
    THEN <<c.op, c.xid, c.is_prepared>>
    ELSE <<c.op, c.xid>>

\* C3: no phase ordering is enforced: in every sequence of calls no call raises,
\* what a call sends depends on its own arguments only, begin is a local
\* transaction start that sends no xid, and prepare sends exactly
\* PREPARE COMMIT <xid>.
C3_NoPhaseOrdering ==
    /\ ~ raised
    /\ Len(marks) = Len(calls)
    /\ \A i \in DOMAIN calls :
          /\ calls[i].op = "begin" => Sent(i) = << [op |-> "do_begin", text |-> ""] >>
          /\ calls[i].op = "prepare" =>
                Sent(i) = << [op |-> "execute",
                              text |-> "PREPARE COMMIT " \o calls[i].xid] >>
    /\ \A i, j \in DOMAIN calls :
          Decisive(calls[i]) = Decisive(calls[j]) => Sent(i) = Sent(j)

\* A commit of a prepared transaction with no prepare before it, then the same
\* prepare twice.
C3_Witness ==
    /\ Len(calls) = 3
    /\ Len(marks) = 3
    /\ calls[1].op = "commit" /\ calls[1].is_prepared
    /\ calls[2].op = "prepare"
    /\ calls[3] = calls[2]
    /\ calls[1].xid = calls[2].xid

(***************************************************************************)
(* H2Compiler.limit_clause.  A number, or None in its place, is NoInt or   *)
(* Int(n).  The clause is the sequence of the pieces the method appends to *)
(* text; process(sql.literal(n)) is the rendering of the number n.         *)
(***************************************************************************)
NoInt == [none |-> TRUE]

Int(n) == [int |-> n]

process_literal(v) == ToString(v.int)

\* The generic rendering: OFFSET alone when there is no limit.
limit_clause_bare_offset(select) ==
    LET text1 == IF select._limit # NoInt
                 THEN << "\n LIMIT ", process_literal(select._limit) >>
                 ELSE <<>>
    IN  IF select._offset # NoInt
        THEN text1 \o << " OFFSET ", process_literal(select._offset) >>
        ELSE text1

limit_clause(select) ==
    LET text1 == IF select._limit # NoInt
                 THEN << "\n LIMIT ", process_literal(select._limit) >>
                 ELSE <<>>
        text2 == IF select._offset # NoInt /\ select._limit = NoInt
                 THEN text1 \o << "\n LIMIT NULL" >>
                 ELSE text1
    IN  IF select._offset # NoInt
        THEN text2 \o << " OFFSET ", process_literal(select._offset) >>
        ELSE text2

(***************************************************************************)
(* SpecLimit: limit_clause on a select with any limit and any offset.      *)
(***************************************************************************)
MaxLimit == 7

OptInts == { NoInt } \cup { Int(n) : n \in 0..MaxLimit }

InitLimit ==
    /\ \E l \in OptInts, o \in OptInts :
          call = [op |-> "limit_clause", select |-> [_limit |-> l, _offset |-> o]]
    /\ pc = "start"
    /\ result = None
    /\ warnings = <<>>
    /\ NoTwophase

LimitClause ==
    /\ call.op = "limit_clause"
    /\ pc = "start"
    /\ result' = limit_clause(call.select)
    /\ pc' = "done"
    /\ UNCHANGED <<call, warnings, calls, log, marks, raised>>

NextLimit == LimitClause

SpecLimit == InitLimit /\ [][NextLimit]_vars

\* C9: the clause is LIMIT <limit> with only a limit, LIMIT NULL OFFSET <offset>
\* with only an offset, LIMIT <limit> OFFSET <offset> with both, and empty with
\* neither; an OFFSET never comes without a LIMIT term before it.  (Each LIMIT
\* term starts on a new line, after a blank.)
C9_LimitClause ==
    (call.op = "limit_clause" /\ pc = "done") =>
        LET l == call.select._limit
            o == call.select._offset
        IN  /\ (l # NoInt /\ o = NoInt) =>
                  result = << "\n LIMIT ", ToString(l.int) >>
            /\ (l = NoInt /\ o # NoInt) =>
                  result = << "\n LIMIT NULL", " OFFSET ", ToString(o.int) >>
            /\ (l # NoInt /\ o # NoInt) =>
                  result = << "\n LIMIT ", ToString(l.int), " OFFSET ", ToString(o.int) >>
            /\ (l = NoInt /\ o = NoInt) => result = <<>>
            /\ \A i \in DOMAIN result :
                  result[i] = " OFFSET " =>
                      \E j \in 1..(i - 1) : result[j] \in { "\n LIMIT ", "\n LIMIT NULL" }

C9_Witness ==
    /\ call.op = "limit_clause"
    /\ pc = "done"
    /\ call.select._limit = NoInt
    /\ call.select._offset = Int(0)
    /\ result = << "\n LIMIT NULL", " OFFSET ", "0" >>

(***************************************************************************)
(* Text helpers of the reflection methods: str.strip('"'), the replacement *)
(* of a doubled quote by one, and re.split with the two patterns           *)
(* get_foreign_keys uses.  \s is the blank here.                           *)
(***************************************************************************)
Min(S) == CHOOSE x \in S : \A y \in S : x <= y

IsSpace(c) == c = " "

Text(s, from, to) == IF from > to THEN <<>> ELSE SubSeq(s, from, to)

\* How many blanks stand immediately before position i of s.
RECURSIVE SpacesBefore(_, _)
SpacesBefore(s, i) ==
    IF i > 1 /\ IsSpace(s[i - 1]) THEN 1 + SpacesBefore(s, i - 1) ELSE 0

\* How many blanks stand immediately after position i of s.
RECURSIVE SpacesAfter(_, _)
SpacesAfter(s, i) ==
    IF i < Len(s) /\ IsSpace(s[i + 1]) THEN 1 + SpacesAfter(s, i + 1) ELSE 0

\* re.split(r'\s*,\s*', s)
RECURSIVE split_comma(_)
split_comma(s) ==
    LET commas == { i \in DOMAIN s : s[i] = "," }
    IN  IF commas = {} THEN << s >>
        ELSE LET c == Min(commas)
             IN  << Text(s, 1, c - SpacesBefore(s, c) - 1) >>
                 \o split_comma(Text(s, c + SpacesAfter(s, c) + 1, Len(s)))

\* re.split(r'\s*,\s', s): the comma must be followed by a blank, and one
\* blank only is taken after it.
RECURSIVE split_comma_space(_)
split_comma_space(s) ==
    LET commas == { i \in DOMAIN s : s[i] = "," /\ i < Len(s) /\ IsSpace(s[i + 1]) }
    IN  IF commas = {} THEN << s >>
        ELSE LET c == Min(commas)
             IN  << Text(s, 1, c - SpacesBefore(s, c) - 1) >>
                 \o split_comma_space(Text(s, c + 2, Len(s)))

\* preparer._unescape_identifier: every doubled quote becomes one quote.
RECURSIVE _unescape_identifier(_)
_unescape_identifier(s) ==
    IF Len(s) >= 2 /\ s[1] = "\"" /\ s[2] = "\""
    THEN << "\"" >> \o _unescape_identifier(Text(s, 3, Len(s)))
    ELSE IF s = <<>> THEN <<>>
         ELSE << s[1] >> \o _unescape_identifier(Tail(s))

\* H2IdentifierPreparer._unquote_identifier: identifier.strip('"')
RECURSIVE _unquote_identifier(_)
_unquote_identifier(s) ==
    IF s # <<>> /\ s[1] = "\"" THEN _unquote_identifier(Tail(s))
    ELSE IF s # <<>> /\ s[Len(s)] = "\"" THEN _unquote_identifier(Text(s, 1, Len(s) - 1))
         ELSE s

_prepare_name(raw_name) ==
    normalize_name(_unquote_identifier(_unescape_identifier(raw_name)))

_get_default_schema_name == normalize_name(<< "p", "u", "b", "l", "i", "c" >>)

(***************************************************************************)
(* The search of get_foreign_keys for                                      *)
(*   FOREIGN KEY\((.*?)\).*?REFERENCES (?:(.*?)\.)?(.*?)\((.*?)\)          *)
(* in a definition.  The keywords FOREIGN KEY and REFERENCES are single    *)
(* elements of the text.  A lazy group ends at the first place from which  *)
(* the rest of the pattern still matches; the optional schema group is     *)
(* taken whenever a "." is followed by "(" and ")" further on.             *)
(***************************************************************************)
\* The first position >= from where s holds c, or 0.
First(s, c, from) ==
    LET at == { i \in DOMAIN s : i >= from /\ s[i] = c }
    IN  IF at = {} THEN 0 ELSE Min(at)

\* s holds "(" and a later ")" at or after position from.
HasParens(s, from) ==
    First(s, "(", from) # 0 /\ First(s, ")", First(s, "(", from) + 1) # 0

\* The groups of table(cols) read from position from of s.
TableAndColumns(s, from) ==
    LET open == First(s, "(", from)
        close == First(s, ")", open + 1)
    IN  [table |-> Text(s, from, open - 1), columns |-> Text(s, open + 1, close - 1)]

fk_search(condef) ==
    LET starts == { i \in DOMAIN condef :
                      /\ condef[i] = "FOREIGN KEY"
                      /\ i < Len(condef) /\ condef[i + 1] = "(" }
        fk == IF starts = {} THEN 0 ELSE Min(starts)
        close == IF fk = 0 THEN 0 ELSE First(condef, ")", fk + 2)
        refs == { i \in DOMAIN condef :
                    /\ close # 0 /\ i > close
                    /\ condef[i] = "REFERENCES"
                    /\ i < Len(condef) /\ condef[i + 1] = " " }
        ref == IF refs = {} THEN 0 ELSE Min(refs)
        dot == IF ref = 0 THEN 0 ELSE First(condef, ".", ref + 2)
    IN  IF ref = 0 \/ ~ HasParens(condef, ref + 2)
        THEN [matched |-> FALSE]
        ELSE IF dot # 0 /\ HasParens(condef, dot + 1)
             THEN [matched |-> TRUE,
                   constrained |-> Text(condef, fk + 2, close - 1),
                   schema |-> Text(condef, ref + 2, dot - 1),
                   table |-> TableAndColumns(condef, dot + 1).table,
                   referred |-> TableAndColumns(condef, dot + 1).columns]
             ELSE [matched |-> TRUE,
                   constrained |-> Text(condef, fk + 2, close - 1),
                   schema |-> None,
                   table |-> TableAndColumns(condef, ref + 2).table,
                   referred |-> TableAndColumns(condef, ref + 2).columns]

prepare_names(raw_cols) == [i \in DOMAIN raw_cols |-> _prepare_name(raw_cols[i])]

\* The body of the loop of get_foreign_keys, for one matched row.
fkey_d(conname, m, schema, default_schema_name) ==
    LET referred_schema ==
            IF m.schema # None /\ m.schema # <<>>
            THEN _prepare_name(m.schema)
            ELSE schema
    IN  [name |-> conname,
         constrained_columns |-> prepare_names(split_comma(m.constrained)),
         referred_schema |-> IF referred_schema = default_schema_name
                             THEN None ELSE referred_schema,
         referred_table |-> _prepare_name(m.table),
         referred_columns |-> prepare_names(split_comma_space(m.referred))]

\* get_foreign_keys: the rows in order; a definition the pattern does not match
\* raises (groups() of no match).
get_foreign_keys(rows, schema_arg) ==
    LET default_schema_name == _get_default_schema_name
        schema == IF schema_arg = None THEN default_schema_name ELSE schema_arg
    IN  IF \E i \in DOMAIN rows : ~ fk_search(rows[i].condef).matched
        THEN [raises |-> TRUE, fkeys |-> <<>>]
        ELSE [raises |-> FALSE,
              fkeys |-> [i \in DOMAIN rows |->
                            fkey_d(rows[i].conname, fk_search(rows[i].condef),
                                   schema, default_schema_name)]]

(***************************************************************************)
(* SpecForeignKeys: get_foreign_keys on the REFERENTIAL rows of            *)
(* INFORMATION_SCHEMA.CONSTRAINTS.  A row is written from a list of        *)
(* constrained columns, an optional referred schema, a referred table and  *)
(* a list of referred columns (kept beside the text as `written`); the     *)
(* method reads conname and condef only.                                   *)
(***************************************************************************)
MaxFkCols == 2

ColNames == { << "A" >>, << "B" >> }

Seps == { << "," >>, << ",", " " >>, << " ", "," >> }

PUBLIC == << "P", "U", "B", "L", "I", "C" >>

OTHER_SCHEMA == << "O", "T", "H", "E", "R" >>

PARENT == << "P", "A", "R", "E", "N", "T" >>

Quoted(name) == << "\"" >> \o name \o << "\"" >>

WrittenSchemas == { None, PUBLIC, Quoted(PUBLIC), OTHER_SCHEMA }

SchemaArgs == { None, Lower(PUBLIC), PUBLIC, Lower(OTHER_SCHEMA) }

RECURSIVE JoinColumns(_, _)
JoinColumns(cols, sep) ==
    IF Len(cols) = 1 THEN cols[1]
    ELSE cols[1] \o sep \o JoinColumns(Tail(cols), sep)

ColumnLists(max) == UNION { [1..n -> ColNames] : n \in 1..max }

ConName(k) == << "F", "K", ToString(k) >>

FkRow(k, cols, sep, schema, refcols, refsep) ==
    [conname |-> ConName(k),
     condef |-> << "ADD CONSTRAINT", " ", "S", ".", "K", " ", "FOREIGN KEY", "(" >>
                \o JoinColumns(cols, sep)
                \o << ")", " ", "REFERENCES", " " >>
                \o (IF schema = None THEN <<>> ELSE schema \o << "." >>)
                \o PARENT \o << "(" >> \o JoinColumns(refcols, refsep)
                \o << ")", " ", "NOCHECK" >>,
     written |-> [constrained |-> cols, schema |-> schema,
                  table |-> PARENT, referred |-> refcols]]

FkRows(k, max) ==
    { FkRow(k, cols, sep, schema, refcols, refsep) :
        cols \in ColumnLists(max), sep \in Seps, schema \in WrittenSchemas,
        refcols \in ColumnLists(max), refsep \in Seps }

\* No constraint, one constraint over up to MaxFkCols columns, or two
\* single-column constraints.
FkResultSets ==
    { <<>> } \cup { << r >> : r \in FkRows(1, MaxFkCols) }
             \cup { << r1, r2 >> : r1 \in FkRows(1, 1), r2 \in FkRows(2, 1) }

InitForeignKeys ==
    /\ \E rows \in FkResultSets, schema \in SchemaArgs :
          call = [op |-> "get_foreign_keys", schema |-> schema, rows |-> rows]
    /\ pc = "start"
    /\ result = [raises |-> FALSE, fkeys |-> <<>>]
    /\ warnings = <<>>
    /\ NoTwophase

GetForeignKeys ==
    /\ call.op = "get_foreign_keys"
    /\ pc = "start"
    /\ result' = get_foreign_keys(call.rows, call.schema)
    /\ pc' = "done"
    /\ UNCHANGED <<call, warnings, calls, log, marks, raised>>

NextForeignKeys == GetForeignKeys

SpecForeignKeys == InitForeignKeys /\ [][NextForeignKeys]_vars

\* The names of a written column list, as the caller sees them.
Normalized(names) == [i \in DOMAIN names |-> normalize_name(names[i])]

\* C5: each definition FOREIGN KEY(<cols>) ... REFERENCES [<schema>.]<table>(<cols>)
\* is parsed so that constrained_columns and referred_columns are the ordered
\* column names of their lists, both lists being split on commas with optional
\* blanks on either side, and referred_table is the table after REFERENCES.
C5_ForeignKeyColumns ==
    (call.op = "get_foreign_keys" /\ pc = "done") =>
        /\ ~ result.raises
        /\ Len(result.fkeys) = Len(call.rows)
        /\ \A i \in DOMAIN call.rows :
              /\ result.fkeys[i].constrained_columns
                    = Normalized(call.rows[i].written.constrained)
              /\ result.fkeys[i].referred_columns
                    = Normalized(call.rows[i].written.referred)
              /\ result.fkeys[i].referred_table
                    = normalize_name(call.rows[i].written.table)

\* The default schema, however it is spelled by the caller.
IsDefaultSchema(schema) == schema \in { None, Lower(PUBLIC), PUBLIC }

\* C6: the referred schema is the normalised schema written in the definition,
\* else the schema of the reflected table; it is None whenever that schema is
\* the default schema (schema argument absent, 'public' or 'PUBLIC'), and a
\* name only when it differs from the default schema.
C6_ReferredSchema ==
    (call.op = "get_foreign_keys" /\ pc = "done") =>
        \A i \in DOMAIN call.rows :
            LET written == call.rows[i].written.schema
                referred == IF written # None
                            THEN normalize_name(_unquote_identifier(written))
                            ELSE call.schema
            IN  /\ i \in DOMAIN result.fkeys
                /\ IsDefaultSchema(referred) => result.fkeys[i].referred_schema = None
                /\ ~ IsDefaultSchema(referred) =>
                      result.fkeys[i].referred_schema = normalize_name(referred)

\* C12: every name get_foreign_keys returns is normalize applied to the name
\* the database reported: the constraint name is normalize_name of
\* CONSTRAINT_NAME and the referred table is normalize_name of the table
\* written after REFERENCES; no raw reported name is returned.
C12_NormalizedNames ==
    (call.op = "get_foreign_keys" /\ pc = "done" /\ ~ result.raises) =>
        \A i \in DOMAIN result.fkeys :
            /\ result.fkeys[i].name = normalize_name(call.rows[i].conname)
            /\ result.fkeys[i].referred_table
                  = normalize_name(call.rows[i].written.table)

(***************************************************************************)
(* H2Dialect.get_indexes: the rows of INFORMATION_SCHEMA.INDEXES, one per  *)
(* indexed column, are grouped by normalised index name.                   *)
(***************************************************************************)
\* The body of the loop for a row that is not skipped.
index_row(indexes, row) ==
    LET col == normalize_name(row.col)
        idx_name == normalize_name(row.idx_name)
        known == { k \in DOMAIN indexes : indexes[k].name = idx_name }
    IN  IF known # {}
        THEN LET k == CHOOSE k \in known : TRUE
             IN  [indexes EXCEPT ![k] =
                    [name |-> idx_name,
                     column_names |-> Append(indexes[k].column_names, col),
                     unique |-> ~ row.non_unique]]
        ELSE Append(indexes, [name |-> idx_name,
                              column_names |-> << col >>,
                              unique |-> ~ row.non_unique])

\* The loop, with the rows of a primary key skipped whatever the caller asks.
RECURSIVE index_rows_never_auto(_, _, _)
index_rows_never_auto(indexes, rows, include_auto_indexes) ==
    IF rows = <<>> THEN indexes
    ELSE IF Head(rows).idx_type = "PRIMARY KEY"
         THEN index_rows_never_auto(indexes, Tail(rows), include_auto_indexes)
         ELSE index_rows_never_auto(index_row(indexes, Head(rows)), Tail(rows),
                                    include_auto_indexes)

RECURSIVE index_rows(_, _, _)
index_rows(indexes, rows, include_auto_indexes) ==
    IF rows = <<>> THEN indexes
    ELSE IF ~ include_auto_indexes /\ Head(rows).idx_type = "PRIMARY KEY"
         THEN index_rows(indexes, Tail(rows), include_auto_indexes)
         ELSE index_rows(index_row(indexes, Head(rows)), Tail(rows),
                         include_auto_indexes)

get_indexes(rows, include_auto_indexes) == index_rows(<<>>, rows, include_auto_indexes)

(***************************************************************************)
(* SpecIndexes: get_indexes on a table whose indexes each have one         *)
(* INDEX_TYPE_NAME, with NON_UNIQUE set for the indexes that are neither   *)
(* unique nor the primary key; the rows of the indexes arrive in any       *)
(* order.  The index names IA and ia differ for the database and normalise *)
(* to one name.                                                            *)
(***************************************************************************)
MaxIndexRows == 3

IndexNames == { << "I", "A" >>, << "i", "a" >>, << "I", "B" >> }

IndexColumns == { << "C", "1" >>, << "C", "2" >> }

IndexTypes == { "PRIMARY KEY", "UNIQUE INDEX", "INDEX" }

IndexRowSets(idx_type) ==
    UNION { [1..n -> { [idx_name |-> i, non_unique |-> (idx_type[i] = "INDEX"),
                        col |-> c, idx_type |-> idx_type[i]] :
                       i \in IndexNames, c \in IndexColumns }]
            : n \in 0..MaxIndexRows }

InitIndexes ==
    /\ \E idx_type \in [IndexNames -> IndexTypes] :
          \E rows \in IndexRowSets(idx_type), include_auto_indexes \in BOOLEAN :
              call = [op |-> "get_indexes", rows |-> rows,
                      include_auto_indexes |-> include_auto_indexes]
    /\ pc = "start"
    /\ result = <<>>
    /\ warnings = <<>>
    /\ NoTwophase

GetIndexes ==
    /\ call.op = "get_indexes"
    /\ pc = "start"
    /\ result' = get_indexes(call.rows, call.include_auto_indexes)
    /\ pc' = "done"
    /\ UNCHANGED <<call, warnings, calls, log, marks, raised>>

NextIndexes == GetIndexes

SpecIndexes == InitIndexes /\ [][NextIndexes]_vars

\* The positions of the rows get_indexes retains.
RetainedRows ==
    { i \in DOMAIN call.rows :
        call.include_auto_indexes \/ call.rows[i].idx_type # "PRIMARY KEY" }

\* The retained rows of the index the caller sees as name.
RowsOf(name) == { i \in RetainedRows : normalize_name(call.rows[i].idx_name) = name }

\* The elements of a finite set of numbers, in increasing order.
RECURSIVE Ascending(_)
Ascending(S) == IF S = {} THEN <<>> ELSE << Min(S) >> \o Ascending(S \ { Min(S) })

\* The greatest element of a finite set of numbers.
Max(S) == CHOOSE x \in S : \A y \in S : y <= x

\* C7: get_indexes returns exactly one descriptor per distinct index name (as
\* returned, normalised) among the retained rows, in the order of each name's
\* first row; its column_names are the columns of the name's rows in arrival
\* order and its unique flag is the negation of the catalog's non_unique flag
\* (of the name's last row); all rows are retained with include_auto_indexes,
\* else those whose type label is not "PRIMARY KEY".
C7_Indexes ==
    (call.op = "get_indexes" /\ pc = "done") =>
        /\ Len(result) = Cardinality({ normalize_name(call.rows[i].idx_name) : i \in RetainedRows })
        /\ \A k \in DOMAIN result :
              LET mine == RowsOf(result[k].name)
              IN  /\ mine # {}
                  /\ result[k].column_names
                        = [j \in 1..Cardinality(mine) |->
                              normalize_name(call.rows[Ascending(mine)[j]].col)]
                  /\ result[k].unique = ~ call.rows[Max(mine)].non_unique
                  /\ \A l \in DOMAIN result :
                        k < l => /\ result[k].name # result[l].name
                                 /\ Min(mine) < Min(RowsOf(result[l].name))

\* Two indexes interleaved, the rows of a primary key among them kept or
\* skipped.
C7_Witness ==
    /\ call.op = "get_indexes"
    /\ pc = "done"
    /\ Len(call.rows) = 3
    /\ Len(result) = 2
    /\ \E k \in DOMAIN result : Len(result[k].column_names) = 2 /\ ~ result[k].unique
    /\ normalize_name(call.rows[1].idx_name) = normalize_name(call.rows[3].idx_name)
    /\ call.rows[1].idx_name # call.rows[2].idx_name
    /\ \E i \in DOMAIN call.rows : call.rows[i].idx_type = "PRIMARY KEY"

(***************************************************************************)
(* H2Dialect.get_columns.  A column default is a sequence of lexical       *)
(* tokens; type names and IS_NULLABLE are strings, lengths are NoInt or    *)
(* Int(n).  A type object is its class with the arguments it was built     *)
(* from; sqltypes.NULLTYPE is the "unknown type" value.                    *)
(***************************************************************************)
ischema_names ==
    [t \in { "BIGINT", "BINARY", "BLOB", "BOOLEAN", "CHAR", "CLOB", "DATE",
             "DATETIME", "DECIMAL", "INTEGER", "SMALLINT", "TIME", "TIMESTAMP",
             "VARCHAR", "DOUBLE" }
       |-> IF t = "DOUBLE" THEN "NUMERIC" ELSE t]

NULLTYPE == [kind |-> "NULLTYPE", args |-> <<>>]

\* re.search('NEXT VALUE FOR .*\.SYSTEM_SEQUENCE_.*', default): the two
\* keywords on one line, anywhere in the text ("." matches no line break).
autoincrement_default(default) ==
    \E i, j \in DOMAIN default :
        /\ i < j
        /\ default[i] = "NEXT VALUE FOR "
        /\ default[j] = ".SYSTEM_SEQUENCE_"
        /\ \A k \in (i + 1)..(j - 1) : default[k] # "\n"

\* The arguments of the type, from the type name and CHARACTER_MAXIMUM_LENGTH.
type_args(type_name, charlen) ==
    IF type_name = "DOUBLE" THEN << 53 >>
    ELSE IF type_name \in { "INT", "INTEGER", "DATE", "TIMESTAMP", "CLOB" } THEN <<>>
         ELSE IF charlen # NoInt /\ charlen # Int(0) THEN << charlen.int >>
              ELSE <<>>

\* A lookup of the type table that fails on an unknown name.
coltype_keyerror(type_name, args) ==
    IF type_name \in DOMAIN ischema_names
    THEN [kind |-> ischema_names[type_name], args |-> args]
    ELSE [kind |-> "KeyError", args |-> <<>>]

coltype(type_name, args) ==
    IF type_name \in DOMAIN ischema_names
    THEN [kind |-> ischema_names[type_name], args |-> args]
    ELSE NULLTYPE

\* A detection that drops the default and leaves the flag as reported.
column_default_dropped(default, autoincrement) ==
    IF default # None /\ autoincrement_default(default)
    THEN [default |-> None, autoincrement |-> autoincrement]
    ELSE [default |-> default, autoincrement |-> autoincrement]

\* The default and the autoincrement flag of a row after the detection of a
\* sequence default.
column_default(default, autoincrement) ==
    IF default # None /\ autoincrement_default(default)
    THEN [default |-> None, autoincrement |-> TRUE]
    ELSE [default |-> default, autoincrement |-> autoincrement]

\* The body of the loop: the descriptor of one row.
column_info(row) ==
    LET d == column_default(row.default, row.autoincrement)
    IN  [name |-> normalize_name(row.column_name),
         type |-> coltype(row.type_name, type_args(row.type_name, row.charlen)),
         nullable |-> (row.nullable = "YES"),
         default |-> d.default,
         autoincrement |-> d.autoincrement]

\* The warnings of the loop: one per row whose type is not in the table.
RECURSIVE column_warnings(_)
column_warnings(rows) ==
    IF rows = <<>> THEN <<>>
    ELSE (IF Head(rows).type_name \in DOMAIN ischema_names THEN <<>>
          ELSE << [type_name |-> Head(rows).type_name,
                   name |-> normalize_name(Head(rows).column_name)] >>)
         \o column_warnings(Tail(rows))

get_columns(rows) == [i \in DOMAIN rows |-> column_info(rows[i])]

(***************************************************************************)
(* SpecColumns: get_columns on the rows of INFORMATION_SCHEMA.COLUMNS of a *)
(* table: one column with any default text, two columns with a default     *)
(* each, or up to MaxColumnRows columns of any type and length.            *)
(***************************************************************************)
MaxDefaultLen == 3

MaxColumnRows == 2

DefaultTokens == { "NEXT VALUE FOR ", "PUBLIC", ".SYSTEM_SEQUENCE_", "0", "\n" }

Defaults == { None } \cup UNION { TextsOfLen(DefaultTokens, n) : n \in 0..MaxDefaultLen }

SequenceDefault == << "NEXT VALUE FOR ", "PUBLIC", ".SYSTEM_SEQUENCE_", "0" >>

TypeNames ==
    { "INTEGER", "BIGINT", "SMALLINT", "DATE", "TIMESTAMP", "CLOB", "BLOB",
      "DOUBLE", "VARCHAR", "CHAR", "INT", "FROBNICATE" }

CharLens == { NoInt, Int(0), Int(255) }

ColumnName(k) == << "C", ToString(k) >>

ColumnRow(k, type_name, default, nullable, autoincrement, charlen) ==
    [column_name |-> ColumnName(k), type_name |-> type_name, default |-> default,
     nullable |-> nullable, autoincrement |-> autoincrement, charlen |-> charlen]

DefaultRows(k, defaults) ==
    { ColumnRow(k, "INTEGER", d, n, a, NoInt) :
        d \in defaults, n \in { "YES", "NO" }, a \in BOOLEAN }

TypedRow(k, tc) == ColumnRow(k, tc[1], None, "YES", FALSE, tc[2])

ColumnsCall(rows) == call = [op |-> "get_columns", rows |-> rows]

InitColumns ==
    /\ \/ \E r \in DefaultRows(1, Defaults) : ColumnsCall(<< r >>)
       \/ \E r1 \in DefaultRows(1, { None, SequenceDefault, << "0" >> }),
             r2 \in DefaultRows(2, { None, SequenceDefault, << "0" >> }) :
             ColumnsCall(<< r1, r2 >>)
       \/ \E n \in 0..MaxColumnRows :
             \E f \in [1..n -> TypeNames \X CharLens] :
                 ColumnsCall([k \in 1..n |-> TypedRow(k, f[k])])
    /\ pc = "start"
    /\ result = <<>>
    /\ warnings = <<>>
    /\ NoTwophase

GetColumns ==
    /\ call.op = "get_columns"
    /\ pc = "start"
    /\ result' = get_columns(call.rows)
    /\ warnings' = warnings \o column_warnings(call.rows)
    /\ pc' = "done"
    /\ UNCHANGED <<call, calls, log, marks, raised>>

NextColumns == GetColumns

SpecColumns == InitColumns /\ [][NextColumns]_vars

\* C8: a non-null default matching NEXT VALUE FOR <schema>.SYSTEM_SEQUENCE_<anything>
\* gives default None and autoincrement True; any other non-null default is
\* carried unchanged with autoincrement as reported; a null default stays null
\* with autoincrement as reported.
C8_AutoincrementDefault ==
    (call.op = "get_columns" /\ pc = "done") =>
        /\ Len(result) = Len(call.rows)
        /\ \A i \in DOMAIN call.rows :
              LET row == call.rows[i]
              IN  IF row.default = None
                  THEN /\ result[i].default = None
                       /\ result[i].autoincrement = row.autoincrement
                  ELSE IF autoincrement_default(row.default)
                       THEN /\ result[i].default = None
                            /\ result[i].autoincrement = TRUE
                       ELSE /\ result[i].default = row.default
                            /\ result[i].autoincrement = row.autoincrement

\* A sequence default on a column the catalog join does not report as
\* auto-incrementing, beside a column with a plain default.
C8_Witness ==
    /\ call.op = "get_columns"
    /\ pc = "done"
    /\ Len(call.rows) = 2
    /\ call.rows[1].default = SequenceDefault
    /\ ~ call.rows[1].autoincrement
    /\ result[1].default = None
    /\ result[1].autoincrement
    /\ call.rows[2].default = << "0" >>
    /\ call.rows[2].autoincrement
    /\ result[2].default = << "0" >>

\* The type name has a portable mapping.
Mapped(type_name) == type_name \in DOMAIN ischema_names

\* The elements of s at the positions in keep, in order.
RECURSIVE Keep(_, _, _)
Keep(s, keep, i) ==
    IF i > Len(s) THEN <<>>
    ELSE (IF i \in keep THEN << s[i] >> ELSE <<>>) \o Keep(s, keep, i + 1)

\* C10: a row whose type name has no portable mapping yields a descriptor with
\* the unknown-type sentinel and a warning, never an exception; the call returns
\* one descriptor per row in the reported order, and the descriptors of the
\* other rows are those the call returns without the unrecognised rows;
\* whatever the type name and the catalog length.
C10_UnknownType ==
    (call.op = "get_columns" /\ pc = "done") =>
        LET known == { i \in DOMAIN call.rows : Mapped(call.rows[i].type_name) }
            unknown == DOMAIN call.rows \ known
        IN  /\ Len(result) = Len(call.rows)
            /\ \A i \in DOMAIN call.rows :
                  result[i].name = normalize_name(call.rows[i].column_name)
            /\ \A i \in unknown :
                  /\ result[i].type = NULLTYPE
                  /\ \E w \in DOMAIN warnings :
                        warnings[w] = [type_name |-> call.rows[i].type_name,
                                       name |-> result[i].name]
            /\ \A i \in known : result[i].type.kind = ischema_names[call.rows[i].type_name]
            /\ Len(warnings) = Cardinality(unknown)
            /\ Keep(result, known, 1) = get_columns(Keep(call.rows, known, 1))

\* An unrecognised type the length rule knows (INT) before a recognised column.
C10_Witness ==
    /\ call.op = "get_columns"
    /\ pc = "done"
    /\ Len(call.rows) = 2
    /\ call.rows[1].type_name = "INT"
    /\ call.rows[1].charlen = Int(255)
    /\ result[1].type = NULLTYPE
    /\ Len(warnings) = 1
    /\ call.rows[2].type_name = "VARCHAR"
    /\ result[2].type = [kind |-> "VARCHAR", args |-> << 255 >>]

\* C11: every type with an intrinsically fixed representation (INTEGER, BIGINT,
\* SMALLINT, DATE, TIMESTAMP, CLOB, BLOB) is built with no argument whatever the
\* catalog length, DOUBLE is always built with precision 53, and only VARCHAR
\* and CHAR take the catalog length as their argument.
C11_TypeArguments ==
    (call.op = "get_columns" /\ pc = "done") =>
        \A i \in DOMAIN call.rows :
            LET type_name == call.rows[i].type_name
                charlen == call.rows[i].charlen
            IN  /\ type_name \in { "INTEGER", "BIGINT", "SMALLINT", "DATE",
                                    "TIMESTAMP", "CLOB", "BLOB" } =>
                      result[i].type = [kind |-> type_name, args |-> <<>>]
                /\ type_name = "DOUBLE" =>
                      result[i].type = [kind |-> "NUMERIC", args |-> << 53 >>]
                /\ (type_name \in { "VARCHAR", "CHAR" } /\ charlen \notin { NoInt, Int(0) }) =>
                      result[i].type = [kind |-> type_name, args |-> << charlen.int >>]
                /\ (Mapped(type_name) /\ type_name \notin { "VARCHAR", "CHAR", "DOUBLE" }) =>
                      result[i].type.args = <<>>

(***************************************************************************)
(* H2Dialect.table_names, get_table_names and get_view_names: the name     *)
(* listings.  The catalog is the set of rows (schema, name) of the         *)
(* relation the listing reads; a query is the relation it selects from     *)
(* with the value bound to :schema (None when the statement has no         *)
(* parameter).  A listing returns whether it raised by itself, the         *)
(* queries it sent and the names it returned.                              *)
(***************************************************************************)
\* The value bound to :schema.
_get_bindparams(schema) == denormalize_name(schema)

\* ORDER BY table_name: texts in the order of their characters.
Collation == UpperLetters \o LowerLetters

CharRank(c) == CHOOSE i \in DOMAIN Collation : Collation[i] = c

RECURSIVE TextLess(_, _)
TextLess(a, b) ==
    IF a = <<>> THEN b # <<>>
    ELSE IF b = <<>> THEN FALSE
         ELSE IF Head(a) = Head(b) THEN TextLess(Tail(a), Tail(b))
              ELSE CharRank(Head(a)) < CharRank(Head(b))

RECURSIVE SortedTexts(_)
SortedTexts(texts) ==
    IF texts = {} THEN <<>>
    ELSE LET least == CHOOSE t \in texts : \A o \in texts \ { t } : TextLess(t, o)
         IN  << least >> \o SortedTexts(texts \ { least })

\* The rows of a SELECT without ORDER BY come in an order the database picks.
RECURSIVE RowOrders(_)
RowOrders(rows) ==
    IF rows = {} THEN { <<>> }
    ELSE UNION { { << r >> \o rs : rs \in RowOrders(rows \ { r }) } : r \in rows }

\* connection.execute of the statement of table_names: the tables of the
\* bound schema, by name.
execute_tables(catalog, s) ==
    SortedTexts({ row.name : row \in { r \in catalog : r.schema = s.schema } })

\* connection.execute of the statement of get_view_names: every row of
\* INFORMATION_SCHEMA.VIEWS, in any order.
execute_views(catalog, s) ==
    { [i \in DOMAIN rs |-> rs[i].name] : rs \in RowOrders(catalog) }

table_names(catalog, schema_arg) ==
    LET schema == IF schema_arg = None THEN _get_default_schema_name ELSE schema_arg
        s == [relation |-> "information_schema.tables",
              schema |-> _get_bindparams(schema)]
        rs == execute_tables(catalog, s)
    IN  [raises |-> FALSE,
         queries |-> << s >>,
         names |-> [i \in DOMAIN rs |-> normalize_name(rs[i])]]

get_table_names(catalog, schema_arg) == table_names(catalog, schema_arg)

\* get_view_names: the statement s is bound in the branch of an absent schema
\* only; with a schema given, execute(s) reads an unbound local and raises.
\* The set of the outcomes the call can have.
get_view_names(catalog, schema_arg) ==
    IF schema_arg = None
    THEN LET s == [relation |-> "INFORMATION_SCHEMA.VIEWS", schema |-> None]
         IN  { [raises |-> FALSE,
                queries |-> << s >>,
                names |-> [i \in DOMAIN rs |-> normalize_name(rs[i])]] :
               rs \in execute_views(catalog, s) }
    ELSE { [raises |-> TRUE, queries |-> <<>>, names |-> <<>>] }

(***************************************************************************)
(* SpecListings: get_table_names and get_view_names on a catalog of up to  *)
(* MaxListingNames names in each of two schemas, with the schema argument  *)
(* absent, the default schema in either case, or another schema.           *)
(***************************************************************************)
MaxListingNames == 2

CatalogSchemas == { PUBLIC, OTHER_SCHEMA }

ListingNames == { << UpperLetters[i] >> : i \in 1..MaxListingNames }

Catalogs == SUBSET [schema : CatalogSchemas, name : ListingNames]

InitListings ==
    /\ \E op \in { "get_table_names", "get_view_names" },
          schema \in SchemaArgs, catalog \in Catalogs :
          call = [op |-> op, schema |-> schema, catalog |-> catalog]
    /\ pc = "start"
    /\ result = [raises |-> FALSE, queries |-> <<>>, names |-> <<>>]
    /\ warnings = <<>>
    /\ NoTwophase

GetTableNames ==
    /\ call.op = "get_table_names"
    /\ pc = "start"
    /\ result' = get_table_names(call.catalog, call.schema)
    /\ pc' = "done"
    /\ UNCHANGED <<call, warnings, calls, log, marks, raised>>

GetViewNames ==
    /\ call.op = "get_view_names"
    /\ pc = "start"
    /\ result' \in get_view_names(call.catalog, call.schema)
    /\ pc' = "done"
    /\ UNCHANGED <<call, warnings, calls, log, marks, raised>>

NextListings == GetTableNames \/ GetViewNames

SpecListings == InitListings /\ [][NextListings]_vars

\* C13: a name listing, for every schema argument (absent or an explicit
\* name), does not fail locally: it issues its one catalog query and returns
\* the normalised names of the rows; get_table_names queries the schema
\* argument if given and the default schema otherwise, and returns an empty
\* sequence when no table of that schema matches.
C13_Listings ==
    (call.op \in { "get_table_names", "get_view_names" } /\ pc = "done") =>
        /\ ~ result.raises
        /\ Len(result.queries) = 1
        /\ \A i \in DOMAIN result.names :
              \E row \in call.catalog : result.names[i] = normalize_name(row.name)
        /\ call.op = "get_table_names" =>
              LET effective == IF call.schema = None THEN Lower(PUBLIC) ELSE call.schema
                  matching == { row \in call.catalog : row.schema = Upper(effective) }
              IN  /\ result.queries[1].schema = Upper(effective)
                  /\ Len(result.names) = Cardinality(matching)
                  /\ { result.names[i] : i \in DOMAIN result.names }
                        = { normalize_name(row.name) : row \in matching }

(***************************************************************************)
(* SpecNames: a name the database reports is normalised, and the           *)
(* normalised name is later denormalised to be sent back (_get_bindparams).*)
(***************************************************************************)
MaxNameLen == 3

NameChars == { "A", "S", "a", "s", "1", "_", "$", " " }

Names == UNION { TextsOfLen(NameChars, n) : n \in 1..MaxNameLen }

InitNames ==
    /\ \E name \in Names : call = [op |-> "normalize_name", name |-> name]
    /\ pc = "start"
    /\ result = [normalized |-> None, denormalized |-> None]
    /\ warnings = <<>>
    /\ NoTwophase

NormalizeName ==
    /\ call.op = "normalize_name"
    /\ pc = "start"
    /\ result' = [result EXCEPT !.normalized = normalize_name(call.name)]
    /\ pc' = "normalized"
    /\ UNCHANGED <<call, warnings, calls, log, marks, raised>>

DenormalizeName ==
    /\ call.op = "normalize_name"
    /\ pc = "normalized"
    /\ result' = [result EXCEPT !.denormalized = denormalize_name(result.normalized)]
    /\ pc' = "done"
    /\ UNCHANGED <<call, warnings, calls, log, marks, raised>>

NextNames == NormalizeName \/ DenormalizeName

SpecNames == InitNames /\ [][NextNames]_vars

\* An identifier the claim C4 is about: entirely upper-case, not a reserved
\* word, and without a character (or a first character) that forces quoting.
PlainUpperName(X) ==
    /\ Upper(X) = X
    /\ Join(Lower(X)) \notin reserved_words
    /\ legal_characters(X)
    /\ X[1] \notin illegal_initial_characters

\* C4: for every upper-case, non-reserved identifier X without characters that
\* force quoting, normalize(X) = lowercase(X) and denormalize(normalize(X)) = X.
C4_RoundTrip ==
    (call.op = "normalize_name" /\ PlainUpperName(call.name)) =>
        /\ pc \in { "normalized", "done" } => result.normalized = Lower(call.name)
        /\ pc = "done" => result.denormalized = call.name

C4_Witness ==
    /\ call.op = "normalize_name"
    /\ PlainUpperName(call.name)
    /\ \E i \in DOMAIN call.name : IsLetter(call.name[i])
    /\ pc = "done"
    /\ result.normalized # call.name
    /\ result.denormalized = call.name

====
